---- MODULE Spec2Model ----
(***************************************************************************)
(* Model of tb_vector_gen.py: the Game of Life test-vector generator.      *)
(* update(grid, N) is modelled cell by cell (one step per iteration of the *)
(* inner loop), main() as the driver that seeds a grid, writes it, calls   *)
(* update five times and writes the result.                                *)
(***************************************************************************)
EXTENDS Integers, Sequences, FiniteSets

\* ---------------------------------------------------------------- bounds
\* Largest grid size N that is explored.
MaxN == 3
\* A single call of update is explored on every grid whose ALIVE cells lie
\* among the first MaxFree cells in row-major order: every binary grid of
\* up to MaxFree cells.
MaxFree == 9
\* Most ALIVE cells in a seed grid handed to the five-generation driver.
MaxAlive == 4
\* Largest cell value, and most non-zero cells, of a non-binary input grid.
MaxVal == 2
MaxMarked == 2

\* ------------------------------------------------------ program constants
ON == 1
OFF == 0
Generations == 5

\* ----------------------------------------------------------------- state
\* N, gens      grid size and number of generations (N = 10 and range(5) in main)
\* grid         main's seed grid
\* finalGrid    main's current grid; inside update it is the parameter `grid`
\* newGrid      update's output matrix
\* i, j, total  update's loop indices and neighbour sum
\* k            number of completed calls of update (main's loop index)
\* file         the strings written to vectors.txt, in order
\* pc           position in the program
\* input, written   history: the argument's value when update was entered,
\*              and the cells update has assigned in newGrid during the call
VARIABLES N, gens, grid, finalGrid, newGrid, i, j, total, k, file, pc,
          input, written

vars == <<N, gens, grid, finalGrid, newGrid, i, j, total, k, file, pc, input, written>>

Cells(n) == (0 .. n - 1) \X (0 .. n - 1)

Grids(n, vs) == [0 .. n - 1 -> [0 .. n - 1 -> vs]]

NoGrid == [r \in {} |-> 0]

\* ------------------------------------------------------- numpy indexing
\* g[r, c] on an n x n array: indices -n .. n-1 are valid, negative ones
\* count from the end; anything else raises IndexError.
InRange(n, r) == r \in (0 - n) .. (n - 1)

\* (mutant) an indexing that yields 1 for an ALIVE cell and 0 for any other.
atCountsAlive(g, n, r, c) == IF g[r % n][c % n] = 1 THEN 1 ELSE 0

at(g, n, r, c) == g[r % n][c % n]

\* ------------------------------------------------- update: neighbour sum
\* The index pairs read by the branch that update selects for cell (ci, cj).
reads(n, ci, cj) ==
    IF ci = 0
    THEN IF cj = 0
         THEN << <<ci, cj + 1>>,
                 <<ci + 1, cj>>,
                 <<ci + 1, cj + 1>> >>
         ELSE IF cj = n - 1
         THEN << <<ci, cj - 1>>,
                 <<ci + 1, cj>>,
                 <<ci + 1, cj - 1>> >>
         ELSE << <<ci, cj - 1>>, <<ci, cj + 1>>,
                 <<ci + 1, cj>>,
                 <<ci + 1, cj - 1>>, <<ci + 1, cj + 1>> >>
    ELSE IF ci = n - 1
    THEN IF cj = 0
         THEN << <<ci, cj + 1>>,
                 <<ci - 1, cj>>,
                 <<ci - 1, cj + 1>> >>
         ELSE IF cj = n - 1
         THEN << <<ci, cj - 1>>,
                 <<ci - 1, cj>>,
                 <<ci - 1, cj - 1>> >>
         ELSE << <<ci, cj - 1>>, <<ci, cj + 1>>,
                 <<ci - 1, cj>>,
                 <<ci - 1, cj - 1>>, <<ci - 1, cj + 1>> >>
    ELSE IF cj = 0
         THEN << <<ci, cj + 1>>,
                 <<ci - 1, cj>>, <<ci + 1, cj>>,
                 <<ci - 1, cj + 1>>,
                 <<ci + 1, cj + 1>> >>
         ELSE IF cj = n - 1
         THEN << <<ci, cj - 1>>,
                 <<ci - 1, cj>>, <<ci + 1, cj>>,
                 <<ci - 1, cj - 1>>,
                 <<ci + 1, cj - 1>> >>
         ELSE << <<ci, cj - 1>>, <<ci, cj + 1>>,
                 <<ci - 1, cj>>, <<ci + 1, cj>>,
                 <<ci - 1, cj - 1>>, <<ci - 1, cj + 1>>,
                 <<ci + 1, cj - 1>>, <<ci + 1, cj + 1>> >>

\* Some read of the selected branch is outside the array.
IndexError(n, ci, cj) ==
    \E x \in 1 .. Len(reads(n, ci, cj)) :
        ~ (InRange(n, reads(n, ci, cj)[x][1]) /\ InRange(n, reads(n, ci, cj)[x][2]))

\* (mutant) the last term of the sum is left out.
RECURSIVE SumReadsDropsLast(_, _, _, _)
SumReadsDropsLast(g, n, rs, x) ==
    IF x >= Len(rs) THEN 0
    ELSE g[rs[x][1] % n][rs[x][2] % n] + SumReadsDropsLast(g, n, rs, x + 1)

RECURSIVE SumReads(_, _, _, _)
SumReads(g, n, rs, x) ==
    IF x > Len(rs) THEN 0
    ELSE at(g, n, rs[x][1], rs[x][2]) + SumReads(g, n, rs, x + 1)

\* (mutant) the first term of the sum is left out.
TotalSkipsFirst(g, n, ci, cj) == SumReads(g, n, reads(n, ci, cj), 2)

\* (mutant) a wrap-around sum: all 8 offsets, taken modulo n.
TotalTorus(g, n, ci, cj) ==
    SumReads(g, n,
             << <<ci, cj - 1>>, <<ci, cj + 1>>,
                <<ci - 1, cj>>, <<(ci + 1) % n, cj>>,
                <<ci - 1, cj - 1>>, <<ci - 1, (cj + 1) % n>>,
                <<(ci + 1) % n, cj - 1>>, <<(ci + 1) % n, (cj + 1) % n>> >>, 1)

\* total = int(grid[..] + grid[..] + ...)
Total(g, n, ci, cj) == SumReads(g, n, reads(n, ci, cj), 1)

\* --------------------------------------------------- update: Conway rule
\* (mutant) total >= 3 instead of total > 3.
AssignsOffByOne(v, t) ==
    IF v = 1 THEN (t < 2) \/ (t >= 3) ELSE t = 3

\* (mutant) the overpopulation test is missing.
AssignsNoOvercrowding(v, t) ==
    IF v = 1 THEN t < 2 ELSE t = 3

\* TRUE when the rule assigns newGrid[i, j] (lines 67 and 70).
Assigns(v, t) ==
    IF v = ON THEN (t < 2) \/ (t > 3) ELSE t = 3

\* The value assigned when Assigns holds.
Assigned(v) == IF v = ON THEN OFF ELSE ON

\* (mutant) a birth stores the neighbour sum instead of ON.
applyRuleStoresTotal(g, ng, ci, cj, t) ==
    IF g[ci][cj] = 1
    THEN IF (t < 2) \/ (t > 3) THEN [ng EXCEPT ![ci][cj] = 0] ELSE ng
    ELSE IF t = 3 THEN [ng EXCEPT ![ci][cj] = t] ELSE ng

\* Lines 65-70: the rule applied to cell (ci, cj) of g, written into ng.
applyRule(g, ng, ci, cj, t) ==
    IF Assigns(g[ci][cj], t)
    THEN [ng EXCEPT ![ci][cj] = Assigned(g[ci][cj])]
    ELSE ng

\* ------------------------------------------------------------ vector file
Digit(d) == CASE d = 0 -> "0" [] d = 1 -> "1" [] d = 2 -> "2" [] d = 3 -> "3"
              [] d = 4 -> "4" [] d = 5 -> "5" [] d = 6 -> "6" [] d = 7 -> "7"
              [] d = 8 -> "8" [] d = 9 -> "9"

\* str(grid[i][j]) for a non-negative integer.
RECURSIVE str(_)
str(v) == IF v < 10 THEN Digit(v) ELSE str(v \div 10) \o Digit(v % 10)

\* The write calls of one row: three per cell, then the newline.
RECURSIVE writeRow(_, _, _, _)
writeRow(g, n, r, c) ==
    IF c = n THEN << "\n" >>
    ELSE << "'", str(g[r][c]), "', " >> \o writeRow(g, n, r, c + 1)

RECURSIVE writeGrid(_, _, _)
writeGrid(g, n, r) ==
    IF r = n THEN << >>
    ELSE writeRow(g, n, r, 0) \o writeGrid(g, n, r + 1)

\* ------------------------------------------------------------------ main
\* Lines 86-97: the seed grid is written, then two blank lines.
MainWriteSeed ==
    /\ pc = "seed"
    /\ file' = writeGrid(grid, N, 0) \o << "\n\n" >>
    /\ pc' = "loop"
    /\ UNCHANGED <<N, gens, grid, finalGrid, newGrid, i, j, total, k, input, written>>

\* Lines 99-100 and 16: the next call of update; newGrid = grid.copy().
UpdateEnter ==
    /\ pc = "loop"
    /\ k < gens
    /\ newGrid' = finalGrid
    /\ input' = finalGrid
    /\ written' = {}
    /\ i' = 0
    /\ j' = 0
    /\ pc' = "scan"
    /\ UNCHANGED <<N, gens, grid, finalGrid, total, k, file>>

\* Lines 17-70: one iteration of the inner loop, for cell (i, j): what it
\* does to update's own variables. The parameter `grid` of update is the
\* object main calls finalGrid.
scanCell ==
    /\ pc = "scan"
    /\ IF IndexError(N, i, j)
       THEN /\ pc' = "raised"
            /\ UNCHANGED <<newGrid, i, j, total, written>>
       ELSE /\ total' = Total(finalGrid, N, i, j)
            /\ newGrid' = applyRule(finalGrid, newGrid, i, j, total')
            /\ written' = IF Assigns(finalGrid[i][j], total')
                          THEN written \cup {<<i, j>>} ELSE written
            /\ IF j < N - 1
               THEN i' = i /\ j' = j + 1 /\ pc' = "scan"
               ELSE IF i < N - 1
               THEN i' = i + 1 /\ j' = 0 /\ pc' = "scan"
               ELSE i' = i /\ j' = j /\ pc' = "ret"
    /\ UNCHANGED <<N, gens, grid, k, file, input>>

\* (mutant) newGrid = grid without the copy: both names denote one array,
\* so every assignment to newGrid shows in the argument.
UpdateCellAliased ==
    /\ scanCell
    /\ finalGrid' = IF IndexError(N, i, j) THEN finalGrid ELSE newGrid'

\* The iteration as the code runs it: newGrid is a copy (line 16), so the
\* argument is left alone.
UpdateCell ==
    /\ scanCell
    /\ UNCHANGED finalGrid

\* Lines 71-72 and 100: update returns newGrid, main rebinds finalGrid.
UpdateReturn ==
    /\ pc = "ret"
    /\ finalGrid' = newGrid
    /\ k' = k + 1
    /\ pc' = "loop"
    /\ UNCHANGED <<N, gens, grid, newGrid, i, j, total, file, input, written>>

\* (mutant) the second block is written from the seed grid.
MainWriteFinalSeed ==
    /\ pc = "loop"
    /\ k = gens
    /\ file' = file \o writeGrid(grid, N, 0)
    /\ pc' = "done"
    /\ UNCHANGED <<N, gens, grid, finalGrid, newGrid, i, j, total, k, input, written>>

\* Lines 102-110: the final grid is written and the file closed.
MainWriteFinal ==
    /\ pc = "loop"
    /\ k = gens
    /\ file' = file \o writeGrid(finalGrid, N, 0)
    /\ pc' = "done"
    /\ UNCHANGED <<N, gens, grid, finalGrid, newGrid, i, j, total, k, input, written>>

Next ==
    \/ MainWriteSeed
    \/ UpdateEnter
    \/ UpdateCell
    \/ UpdateReturn
    \/ MainWriteFinal

\* Lines 77-84: grid = randomGrid(N); finalGrid = grid.copy().
InitWith(n, gn, g) ==
    /\ N = n
    /\ gens = gn
    /\ grid = g
    /\ finalGrid = g
    /\ newGrid = NoGrid
    /\ input = NoGrid
    /\ written = {}
    /\ i = 0
    /\ j = 0
    /\ total = 0
    /\ k = 0
    /\ file = << >>
    /\ pc = "seed"

\* The n x n grid that holds f on the cells of S and OFF elsewhere.
GridOf(n, S, f) ==
    [r \in 0 .. n - 1 |-> [c \in 0 .. n - 1 |->
        IF <<r, c>> \in S THEN f[<<r, c>>] ELSE OFF]]

\* The n x n grids with at most m non-zero cells, those drawn from vs.
SparseGrids(n, vs, m) ==
    UNION { {GridOf(n, S, f) : f \in [S -> vs]} :
            S \in {T \in SUBSET Cells(n) : Cardinality(T) <= m} }

\* The driver: five generations from a seed as randomGrid returns it.
Init ==
    \E n \in 1 .. MaxN : \E g \in SparseGrids(n, {ON}, MaxAlive) :
        InitWith(n, Generations, g)

Spec == Init /\ [][Next]_vars

\* One call of update (the driver run for one generation) on every binary
\* grid whose ALIVE cells are among the first MaxFree cells.
FreeCells(n) == {c \in Cells(n) : c[1] * n + c[2] < MaxFree}

InitUpdate ==
    \E n \in 1 .. MaxN : \E S \in SUBSET FreeCells(n) :
        InitWith(n, 1, GridOf(n, S, [c \in S |-> ON]))

SpecUpdate == InitUpdate /\ [][Next]_vars

\* One call of update on grids that hold values other than 0 and 1.
InitInt ==
    \E n \in 1 .. MaxN : \E g \in SparseGrids(n, 1 .. MaxVal, MaxMarked) :
        InitWith(n, 1, g)

SpecInt == InitInt /\ [][Next]_vars

\* The driver on the 5 x 5 blinker.
BlinkerH == GridOf(5, {<<2, 1>>, <<2, 2>>, <<2, 3>>}, [c \in Cells(5) |-> ON])

BlinkerV == GridOf(5, {<<1, 2>>, <<2, 2>>, <<3, 2>>}, [c \in Cells(5) |-> ON])

InitBlinker == InitWith(5, Generations, BlinkerH)

SpecBlinker == InitBlinker /\ [][Next]_vars

\* ------------------------------------------------ reference definitions
\* The uniform neighbourhood: the 8 offsets, filtered to the grid.
Offsets == ({-1, 0, 1} \X {-1, 0, 1}) \ {<<0, 0>>}

Neighbourhood(n, ci, cj) ==
    {<<ci + d[1], cj + d[2]>> : d \in Offsets} \cap Cells(n)

AliveNeighbours(g, n, ci, cj) ==
    Cardinality({p \in Neighbourhood(n, ci, cj) : g[p[1]][p[2]] = ON})

RECURSIVE SumOver(_, _)
SumOver(g, S) ==
    IF S = {} THEN 0
    ELSE LET p == CHOOSE q \in S : TRUE
         IN g[p[1]][p[2]] + SumOver(g, S \ {p})

\* Conway's rule on a binary cell v with t live neighbours.
LifeNext(v, t) == IF t = 3 \/ (v = ON /\ t = 2) THEN ON ELSE OFF

\* (the comparison makes TLC build the grid once instead of re-deriving a
\* cell on every use)
LifeStep(g, n) ==
    LET h == [r \in 0 .. n - 1 |-> [c \in 0 .. n - 1 |->
                 LifeNext(g[r][c], AliveNeighbours(g, n, r, c))]]
    IN IF h = h THEN h ELSE g

RECURSIVE LifeIter(_, _, _)
LifeIter(g, n, m) == IF m = 0 THEN g ELSE LifeIter(LifeStep(g, n), n, m - 1)

\* g with every value other than 1 replaced by 0.
Normalised(g, n) ==
    [r \in 0 .. n - 1 |-> [c \in 0 .. n - 1 |-> IF g[r][c] = ON THEN ON ELSE OFF]]

\* The cells the running call of update has already handled.
InCall == pc \in {"scan", "ret"}

Processed ==
    IF pc = "ret" THEN Cells(N)
    ELSE IF pc = "scan"
    THEN {c \in Cells(N) : c[1] < i \/ (c[1] = i /\ c[2] < j)}
    ELSE {}

\* The cell whose sum the variable total holds.
HasLast == Processed # {}

LastCell ==
    IF pc = "ret" THEN <<i, j>>
    ELSE IF j > 0 THEN <<i, j - 1>> ELSE <<i - 1, N - 1>>

OnEdge(n, x) == x = 0 \/ x = n - 1

\* The value update leaves in cell c of its output when called on g.
CellOut(g, n, c) ==
    applyRule(g, g, c[1], c[2], Total(g, n, c[1], c[2]))[c[1]][c[2]]

\* Grids that agree with g on c and on its in-bounds neighbours: g itself,
\* g with one cell outside the neighbourhood changed, and g with every
\* cell outside the neighbourhood ALIVE, or every one DEAD.
Outside(n, c) == Cells(n) \ (Neighbourhood(n, c[1], c[2]) \cup {c})

Variants(g, n, c) ==
    {g}
    \cup {[g EXCEPT ![d[1]][d[2]] = ON - g[d[1]][d[2]]] : d \in Outside(n, c)}
    \cup {[r \in 0 .. n - 1 |-> [cc \in 0 .. n - 1 |->
              IF <<r, cc>> \in Outside(n, c) THEN v ELSE g[r][cc]]] : v \in {OFF, ON}}

\* ------------------------------------------------------------------ claims

\* C1: for N >= 2 the total update computes for a cell is the number of
\* ALIVE cells among the in-bounds positions of the 8 offsets; the branch
\* reads exactly those positions, once each: 3 for a corner, 5 for an edge,
\* 8 for an interior cell; no read is out of bounds.
C1_TotalIsUniformCount ==
    N >= 2 =>
        /\ pc # "raised"
        /\ HasLast =>
            LET ci == LastCell[1]
                cj == LastCell[2]
                rs == reads(N, ci, cj)
            IN /\ total = AliveNeighbours(finalGrid, N, ci, cj)
               /\ {rs[x] : x \in 1 .. Len(rs)} = Neighbourhood(N, ci, cj)
               /\ Len(rs) = Cardinality(Neighbourhood(N, ci, cj))
               /\ Len(rs) = IF OnEdge(N, ci) /\ OnEdge(N, cj) THEN 3
                            ELSE IF OnEdge(N, ci) \/ OnEdge(N, cj) THEN 5
                            ELSE 8

C1_Witness ==
    /\ N = 3
    /\ pc = "scan"
    /\ LastCell = <<1, 1>>
    /\ total = 8

\* C2: a cell is ALIVE in update's output iff its live-neighbour count is
\* 3, or it was ALIVE and the count is 2.
C2_ConwayRule ==
    N >= 2 =>
        \A c \in Processed :
            LET t == AliveNeighbours(finalGrid, N, c[1], c[2])
            IN (newGrid[c[1]][c[2]] = ON)
                   <=> (t = 3 \/ (finalGrid[c[1]][c[2]] = ON /\ t = 2))

C2_Witness ==
    /\ pc = "ret"
    /\ \E c \in Cells(N) :
          /\ finalGrid[c[1]][c[2]] = ON
          /\ AliveNeighbours(finalGrid, N, c[1], c[2]) = 8
          /\ newGrid[c[1]][c[2]] = OFF
    /\ \E c \in Cells(N) :
          /\ finalGrid[c[1]][c[2]] = ON
          /\ AliveNeighbours(finalGrid, N, c[1], c[2]) = 3
          /\ newGrid[c[1]][c[2]] = ON

\* C3: update never modifies its input: throughout the scan and at the
\* return the argument holds the value it had when update was entered.
C3_InputUnchanged ==
    InCall => finalGrid = input

C3_Witness ==
    /\ pc = "ret"
    /\ N = 3
    /\ Cardinality(written) >= 5
    /\ finalGrid = input
    /\ newGrid # input

\* C4: the output value of a cell depends only on the input at that cell
\* and at its in-bounds neighbours: update gives the cell the same value on
\* every grid that differs from the input only outside that neighbourhood,
\* and the values already written to the output do not influence it.
C4_DependsOnNeighbourhoodOnly ==
    N >= 2 =>
        \A c \in Processed :
            \A g2 \in Variants(finalGrid, N, c) :
                newGrid[c[1]][c[2]] = CellOut(g2, N, c)

C4_Witness ==
    /\ pc = "ret"
    /\ N = 3
    /\ finalGrid[0][0] = OFF
    /\ finalGrid[0][1] = ON
    /\ finalGrid[1][0] = ON
    /\ finalGrid[1][1] = OFF
    /\ \A d \in Outside(N, <<0, 0>>) : finalGrid[d[1]][d[2]] = ON
    /\ newGrid[0][0] = OFF

\* C5: for N = 1 update completes without error and returns a grid whose
\* single cell is DEAD.
C5_SingleCellDies ==
    N = 1 =>
        /\ pc # "raised"
        /\ pc = "ret" => newGrid[0][0] = OFF

\* C6 as stated: non-binary values are treated as DEAD, so update returns
\* what it returns on the grid with every value other than 1 replaced by 0.
C6_NonBinaryIsDead ==
    (N >= 2 /\ pc = "ret") =>
        newGrid = LifeStep(Normalised(finalGrid, N), N)

\* C6 amended: on a grid of non-negative integers update raises no error;
\* total is the arithmetic sum of the in-bounds neighbours' values; a cell
\* holding 1 becomes 0 when total < 2 or total > 3 and stays 1 otherwise; a
\* cell holding any other value becomes 1 when total = 3 and otherwise
\* keeps its value.
C6_NonBinaryKeepsValue ==
    N >= 2 =>
        /\ pc # "raised"
        /\ HasLast =>
              total = SumOver(finalGrid, Neighbourhood(N, LastCell[1], LastCell[2]))
        /\ \A c \in Processed :
              LET v == finalGrid[c[1]][c[2]]
                  t == SumOver(finalGrid, Neighbourhood(N, c[1], c[2]))
              IN newGrid[c[1]][c[2]] =
                     IF v = ON THEN (IF t = 2 \/ t = 3 THEN ON ELSE OFF)
                     ELSE IF t = 3 THEN ON ELSE v

C6_Witness ==
    /\ pc = "ret"
    /\ N = 3
    /\ finalGrid[0][1] = 2
    /\ newGrid[0][1] = 2
    /\ finalGrid[1][0] = 1
    /\ finalGrid[0][0] = 0
    /\ newGrid[0][0] = ON

\* C7: over the generations of a run every grid is N x N and every cell of
\* it is 0 or 1.
C7_ShapeAndDomain ==
    /\ finalGrid \in Grids(N, {OFF, ON})
    /\ InCall => newGrid \in Grids(N, {OFF, ON})

C7_Witness ==
    /\ pc = "done"
    /\ N = 3
    /\ k = Generations
    /\ finalGrid # grid
    /\ finalGrid # LifeStep(finalGrid, N)

\* C8: the 5 x 5 blinker alternates between the horizontal and the
\* vertical grid: horizontal after an even number of updates, vertical
\* after an odd number.
BlinkerPhase(m) == IF m % 2 = 0 THEN BlinkerH ELSE BlinkerV

C8_BlinkerPeriodTwo ==
    /\ pc # "raised"
    /\ pc \in {"seed", "loop", "done"} => finalGrid = BlinkerPhase(k)
    /\ InCall => finalGrid = BlinkerPhase(k)
    /\ pc = "ret" => newGrid = BlinkerPhase(k + 1)

C8_Witness ==
    /\ pc = "loop"
    /\ k = 2
    /\ input = BlinkerV
    /\ finalGrid = BlinkerH

\* C9: main writes the seed before any update, then calls update exactly
\* five times, each output the next input, then writes the fifth result:
\* the file holds generation 0, two blank lines, generation 5 of the same
\* seed, and main's seed grid is what was written first.
SeedBlock == writeGrid(grid, N, 0) \o << "\n\n" >>

C9_DriverOrder ==
    N >= 2 =>
        /\ pc = "seed" => (file = << >> /\ k = 0 /\ finalGrid = grid)
        /\ pc \in {"loop", "scan", "ret"} =>
              /\ file = SeedBlock
              /\ k \in 0 .. Generations
        /\ pc = "loop" => finalGrid = LifeIter(grid, N, k)
        /\ pc = "scan" => k < Generations
        /\ pc = "ret" => (k < Generations /\ newGrid = LifeIter(grid, N, k + 1))
        /\ pc = "done" =>
              /\ k = Generations
              /\ file = SeedBlock \o writeGrid(LifeIter(grid, N, Generations), N, 0)
        /\ pc # "raised"

C9_Witness ==
    /\ pc = "done"
    /\ N = 3
    /\ k = 5
    /\ finalGrid # grid
    /\ Len(file) = 2 * (3 * (3 * 3 + 1)) + 1

Outcome(c, v, lo, hi) ==
    /\ finalGrid[c[1]][c[2]] = v
    /\ AliveNeighbours(finalGrid, N, c[1], c[2]) \in lo .. hi

====
